---------------------------- MODULE Spec2Model ----------------------------
(***************************************************************************)
(* A model of the publish/process pipeline of gpwillia/pubsubwebapp:       *)
(*   src/src/publisher/lambda_function.py   (the publisher Lambda)         *)
(*   src/src/subscriber/lambda_function.py  (the subscriber Lambda)        *)
(*                                                                         *)
(* One invocation of a handler is a sequence of steps; every step is one   *)
(* action.  The external collaborators (the SNS client, CloudWatch, the    *)
(* DynamoDB table, uuid4) are the environment: each call to one of them    *)
(* picks its outcome with \E.                                              *)
(*                                                                         *)
(* Python values are tagged records (TLC does not compare values of        *)
(* different kinds).  A text is a sequence of one-character strings.  The  *)
(* serialized size of a JSON object, len(json.dumps(x).encode('utf-8')),   *)
(* is a field of the object: the inputs are drawn with sizes on both sides *)
(* of MAX_MESSAGE_SIZE.                                                    *)
(***************************************************************************)
EXTENDS Integers, Sequences, FiniteSets, TLC

\* Config.MAX_MESSAGE_SIZE = 256 * 1024 (both config.py files).
MAX_MESSAGE_SIZE == 262144

\* Config.MAX_RETRIES = int(os.environ.get('MAX_RETRIES', '3')) is any integer the
\* environment gives; the model draws it from -1 .. MaxRetriesBound.
MaxRetriesBound == 2

\* The longest batch of records (and the longest non-list 'Records' string).
MaxRecords == 2

VARIABLES
    \* ---- environment (os.environ, read by both functions) ----
    MAX_RETRIES,               \* Config.MAX_RETRIES
    SNS_TOPIC_ARN,             \* os.environ.get('SNS_TOPIC_ARN'), "" when unset
    PROCESSING_RESULTS_TABLE,  \* os.environ.get('PROCESSING_RESULTS_TABLE'), "" when unset
    \* ---- publisher lambda_handler ----
    p_pc,            \* position of the publisher invocation
    p_event,         \* its event
    correlation_id,  \* str(uuid.uuid4()) of line 30
    p_exc,           \* the exception in flight: [kind, text]
    message,         \* the envelope prepare_message built
    attempt,         \* the loop variable of publish_message
    sns_calls,       \* the sns_client.publish calls so far, in order
    response,        \* what publish_message returned
    p_metrics,       \* the cloudwatch.put_metric_data calls of the publisher
    p_return,        \* what the publisher handler returned
    \* ---- subscriber lambda_handler ----
    s_pc,                \* position of the subscriber invocation
    s_event,             \* its event
    processor,           \* "real": process_sns_record; "stub": patched, as the tests do
    s_i,                 \* the record the loop is at (1-based)
    successful_records,
    failed_records,
    processing_results,
    s_outcomes,          \* how the processor ended for each record attempted
    s_audit,             \* the table.put_item calls: the record's index, the key, the outcome
    s_metrics,           \* the cloudwatch.put_metric_data calls of the subscriber
    s_return             \* what the subscriber handler returned

env_vars == <<MAX_RETRIES, SNS_TOPIC_ARN, PROCESSING_RESULTS_TABLE>>
pub_vars == <<p_pc, p_event, correlation_id, p_exc, message, attempt, sns_calls,
              response, p_metrics, p_return>>
sub_vars == <<s_pc, s_event, processor, s_i, successful_records, failed_records,
              processing_results, s_outcomes, s_audit, s_metrics, s_return>>
vars == <<env_vars, pub_vars, sub_vars>>

----------------------------------------------------------------------------
(* Python values *)

\* A text: a sequence of characters; " " is the whitespace character.
Texts == { <<>>, <<" ">>, <<"a">>, <<"a", " ", "b">> }

Str(s)  == [t |-> "str",  s |-> s,    n |-> 0]
Num(n)  == [t |-> "num",  s |-> <<>>, n |-> n]
Bool(b) == [t |-> "bool", s |-> <<>>, n |-> IF b THEN 1 ELSE 0]
Null    == [t |-> "null", s |-> <<>>, n |-> 0]
\* A list or an object with n elements (its elements are not modelled).
List(n) == [t |-> "list", s |-> <<>>, n |-> n]
Dict(n) == [t |-> "dict", s |-> <<>>, n |-> n]

\* bool(v): the truth value Python gives a JSON value.
Truthy(v) ==
    CASE v.t = "str"  -> Len(v.s) > 0
      [] v.t = "num"  -> v.n # 0
      [] v.t = "bool" -> v.n = 1
      [] v.t = "null" -> FALSE
      [] OTHER        -> v.n > 0

RECURSIVE LStrip(_)
LStrip(s) == IF s # <<>> /\ Head(s) = " " THEN LStrip(Tail(s)) ELSE s

RECURSIVE RStrip(_)
RStrip(s) ==
    IF s # <<>> /\ s[Len(s)] = " " THEN RStrip(SubSeq(s, 1, Len(s) - 1)) ELSE s

\* str.strip()
Strip(s) == RStrip(LStrip(s))

\* str(uuid.uuid4())
UUIDs == {"uuid-1", "uuid-2"}

\* The ids the transport gives the messages it accepts.
SnsMessageIds == {"sns-1", "sns-2"}

\* context.aws_request_id
AwsRequestId == "req-1"

----------------------------------------------------------------------------
(* Publisher: the events *)

\* A JSON value as validate_input sees it: its type, its 'message' and
\* 'correlationId' members when it is an object, and its serialized size.
NoMessage == Null

JsonBody(t, hasMessage, msg, size, cid) ==
    [t |-> t, hasMessage |-> hasMessage, message |-> msg, size |-> size,
     correlationId |-> cid]

NotAnObject(t) == JsonBody(t, FALSE, NoMessage, 4, "")

MessageValues ==
    { Str(s) : s \in Texts } \cup { Num(0), Num(5), Null, Bool(FALSE), List(0), List(2) }

Sizes == { 40, MAX_MESSAGE_SIZE, MAX_MESSAGE_SIZE + 1 }

\* The objects: with a 'message' of every kind (small), with a good 'message' of
\* every size, without 'message'; with and without a 'correlationId' of their own.
JsonObjects ==
    { JsonBody("dict", TRUE, m, 40, "") : m \in MessageValues }
    \cup { JsonBody("dict", TRUE, Str(<<"a", " ", "b">>), z, c) :
              z \in Sizes, c \in {"", "cid-req"} }
    \cup { JsonBody("dict", FALSE, NoMessage, z, "") : z \in {40, MAX_MESSAGE_SIZE + 1} }

JsonNonObjects == { NotAnObject(t) : t \in {"list", "str", "null"} }

\* An event: the event itself as a JSON value (self), and its 'body' member:
\* present or not, a str or not, and, when a str, valid JSON or not; body is the
\* decoded value of a str body, and the value itself otherwise.
Event(self, hasBody, bodyIsStr, bodyJsonOk, body) ==
    [self |-> self, hasBody |-> hasBody, bodyIsStr |-> bodyIsStr,
     bodyJsonOk |-> bodyJsonOk, body |-> body]

NoBody == NotAnObject("null")

DirectEvents ==
    { Event(b, FALSE, FALSE, FALSE, NoBody) : b \in JsonObjects \cup {NotAnObject("list"), NotAnObject("null")} }

\* The outer object of a wrapped event: without a 'message' of its own, or with one.
OuterObjects ==
    { JsonBody("dict", FALSE, NoMessage, 60, ""),
      JsonBody("dict", TRUE, Str(<<"a">>), 60, "") }

WrappedEvents ==
    { Event(o, TRUE, TRUE, TRUE, b) : o \in OuterObjects, b \in JsonObjects \cup JsonNonObjects }
    \cup { Event(o, TRUE, FALSE, FALSE, b) :
              o \in OuterObjects, b \in JsonObjects \cup {NotAnObject("list"), NotAnObject("null")} }
    \cup { Event(o, TRUE, TRUE, FALSE, NoBody) : o \in OuterObjects }

PublisherEvents == DirectEvents \cup WrappedEvents

----------------------------------------------------------------------------
(* Publisher: the functions *)

Raise(kind, text) == [kind |-> kind, text |-> text, actual |-> 0, limit |-> 0, body |-> NoBody]
NoException == Raise("none", "")

\* A validator that takes a 'message' only when it is a str.
validate_input_text_only(event) ==
    IF event.self.t \notin {"dict", "list", "str"}
    THEN Raise("TypeError", "not iterable")
    ELSE
    LET wrapped == event.self.t = "dict" /\ event.hasBody IN
    IF wrapped /\ event.bodyIsStr /\ ~event.bodyJsonOk
    THEN Raise("ValidationError", "Invalid JSON in request body")
    ELSE
    LET body == IF wrapped THEN event.body ELSE event.self IN
    IF body.t # "dict"
    THEN Raise("ValidationError", "Message body must be a JSON object")
    ELSE IF ~body.hasMessage
    THEN Raise("ValidationError", "Message field is required")
    ELSE IF body.message.t # "str" \/ Strip(body.message.s) = <<>>
    THEN Raise("ValidationError", "Message cannot be empty")
    ELSE IF body.size > MAX_MESSAGE_SIZE
    THEN [kind |-> "ValidationError", text |-> "Message size exceeds limit",
          actual |-> body.size, limit |-> MAX_MESSAGE_SIZE, body |-> NoBody]
    ELSE [kind |-> "ok", text |-> "", actual |-> 0, limit |-> 0, body |-> body]

\* A validator whose ceiling is exclusive.
validate_input_below_limit(event) ==
    IF event.self.t \notin {"dict", "list", "str"}
    THEN Raise("TypeError", "not iterable")
    ELSE
    LET wrapped == event.self.t = "dict" /\ event.hasBody IN
    IF wrapped /\ event.bodyIsStr /\ ~event.bodyJsonOk
    THEN Raise("ValidationError", "Invalid JSON in request body")
    ELSE
    LET body == IF wrapped THEN event.body ELSE event.self IN
    IF body.t # "dict"
    THEN Raise("ValidationError", "Message body must be a JSON object")
    ELSE IF ~body.hasMessage
    THEN Raise("ValidationError", "Message field is required")
    ELSE IF ~Truthy(body.message) \/ (body.message.t = "str" /\ Strip(body.message.s) = <<>>)
    THEN Raise("ValidationError", "Message cannot be empty")
    ELSE IF body.size >= MAX_MESSAGE_SIZE
    THEN [kind |-> "ValidationError", text |-> "Message size exceeds limit",
          actual |-> body.size, limit |-> MAX_MESSAGE_SIZE, body |-> NoBody]
    ELSE [kind |-> "ok", text |-> "", actual |-> 0, limit |-> 0, body |-> body]

\* A validator that prefers the outer event when it has a 'message' of its own.
validate_input_outer_first(event) ==
    IF event.self.t \notin {"dict", "list", "str"}
    THEN Raise("TypeError", "not iterable")
    ELSE
    LET wrapped == event.self.t = "dict" /\ event.hasBody /\ ~event.self.hasMessage IN
    IF wrapped /\ event.bodyIsStr /\ ~event.bodyJsonOk
    THEN Raise("ValidationError", "Invalid JSON in request body")
    ELSE
    LET body == IF wrapped THEN event.body ELSE event.self IN
    IF body.t # "dict"
    THEN Raise("ValidationError", "Message body must be a JSON object")
    ELSE IF ~body.hasMessage
    THEN Raise("ValidationError", "Message field is required")
    ELSE IF ~Truthy(body.message) \/ (body.message.t = "str" /\ Strip(body.message.s) = <<>>)
    THEN Raise("ValidationError", "Message cannot be empty")
    ELSE IF body.size > MAX_MESSAGE_SIZE
    THEN [kind |-> "ValidationError", text |-> "Message size exceeds limit",
          actual |-> body.size, limit |-> MAX_MESSAGE_SIZE, body |-> NoBody]
    ELSE [kind |-> "ok", text |-> "", actual |-> 0, limit |-> 0, body |-> body]

\* validate_input(event): [kind |-> "ok", body |-> the validated object], or the
\* exception it raises.
validate_input(event) ==
    IF event.self.t \notin {"dict", "list", "str"}
    THEN \* 'body' in event: argument of type 'NoneType' is not iterable
         Raise("TypeError", "not iterable")
    ELSE
    LET wrapped == event.self.t = "dict" /\ event.hasBody IN
    IF wrapped /\ event.bodyIsStr /\ ~event.bodyJsonOk
    THEN Raise("ValidationError", "Invalid JSON in request body")
    ELSE
    LET body == IF wrapped THEN event.body ELSE event.self IN
    IF body.t # "dict"
    THEN Raise("ValidationError", "Message body must be a JSON object")
    ELSE IF ~body.hasMessage
    THEN Raise("ValidationError", "Message field is required")
    ELSE IF ~Truthy(body.message) \/ (body.message.t = "str" /\ Strip(body.message.s) = <<>>)
    THEN Raise("ValidationError", "Message cannot be empty")
    ELSE IF body.size > MAX_MESSAGE_SIZE
    THEN [kind |-> "ValidationError", text |-> "Message size exceeds limit",
          actual |-> body.size, limit |-> MAX_MESSAGE_SIZE, body |-> NoBody]
    ELSE [kind |-> "ok", text |-> "", actual |-> 0, limit |-> 0, body |-> body]

\* What the envelope of prepare_message adds to the serialization of its 'data':
\* the six keys, the uuid, the timestamp, 'publisher-lambda' and the 'metadata'
\* object, at their shortest (an empty request id, function name and version).
EnvelopeOverhead == 251

\* prepare_message(message_data, correlation_id, context); size is
\* len(json.dumps(envelope).encode('utf-8')), as line 207 serializes it.
prepare_message(message_data, cid) ==
    [correlationId |-> cid, source |-> "publisher-lambda",
     requestId |-> AwsRequestId, data |-> message_data,
     size |-> message_data.size + EnvelopeOverhead]

NoEnvelope == prepare_message(NoBody, "")

\* What sns_client.publish does: it returns a response, or raises a botocore
\* exception, or (a stub, as tests/unit/test_publisher.py:143) any Exception.
SnsOutcomes == {"ok", "ClientError", "BotoCoreError", "Exception"}

\* except (ClientError, BotoCoreError) of publish_message
CaughtByRetry(outcome) == outcome \in {"ClientError", "BotoCoreError"}

NoResponse == [none |-> TRUE, MessageId |-> ""]

\* One sns_client.publish call: how it ended, and the MessageId of its response.
SnsCall(outcome, mid) ==
    [outcome |-> outcome, MessageId |-> IF outcome = "ok" THEN mid ELSE ""]

\* record_metrics of the publisher: whether it raises when put_metric_data does
\* (sink_ok = FALSE).  Its try/except Exception swallows the failure.
pub_record_metrics_raises(sink_ok) == FALSE

Emission(type, sink_ok) == [type |-> type, sink_ok |-> sink_ok]

NoReturn ==
    [statusCode |-> 0, error |-> "", messageId |-> "", correlationId |-> "",
     header |-> ""]

Return(code, error, mid, cid) ==
    [statusCode |-> code, error |-> error, messageId |-> mid, correlationId |-> cid,
     header |-> cid]

----------------------------------------------------------------------------
(* Publisher: lambda_handler, step by step *)

\* The function's environment as this invocation finds it, and lines 30-34: the
\* fresh correlation id of the invocation.
pub_invoke(ev, uuid, retries, topic_arn) ==
    /\ p_pc = "idle"
    /\ s_pc = "idle"
    /\ MAX_RETRIES' = retries
    /\ SNS_TOPIC_ARN' = topic_arn
    /\ p_pc' = "validate"
    /\ p_event' = ev
    /\ correlation_id' = uuid
    /\ UNCHANGED <<PROCESSING_RESULTS_TABLE, sub_vars, p_exc, message, attempt, sns_calls,
                   response, p_metrics, p_return>>

\* A handler that prepares and publishes whatever validate_input said.
pub_validate_unchecked ==
    /\ p_pc = "validate"
    /\ message' = prepare_message(validate_input(p_event).body, correlation_id)
    /\ p_pc' = "publish"
    /\ UNCHANGED <<env_vars, sub_vars, p_event, correlation_id, p_exc, attempt, sns_calls,
                   response, p_metrics, p_return>>

\* Lines 38-41: validate_input, then prepare_message.
pub_validate ==
    /\ p_pc = "validate"
    /\ LET r == validate_input(p_event) IN
       IF r.kind = "ok"
       THEN /\ message' = prepare_message(r.body, correlation_id)
            /\ p_pc' = "publish"
            /\ p_exc' = p_exc
       ELSE /\ p_exc' = r
            /\ p_pc' = "except"
            /\ message' = message
    /\ UNCHANGED <<env_vars, sub_vars, p_event, correlation_id, attempt, sns_calls, response,
                   p_metrics, p_return>>

\* A publish_message that does not look at the topic before its loop.
pub_publish_begin_without_topic_check ==
    /\ p_pc = "publish"
    /\ IF MAX_RETRIES + 1 <= 0
       THEN /\ response' = NoResponse
            /\ p_pc' = "success"
            /\ UNCHANGED <<attempt, p_exc>>
       ELSE /\ attempt' = 0
            /\ p_pc' = "attempt"
            /\ UNCHANGED <<response, p_exc>>
    /\ UNCHANGED <<env_vars, sub_vars, p_event, correlation_id, message, sns_calls, p_metrics,
                   p_return>>

\* publish_message, lines 203-225: the topic check and the entry of the loop
\* for attempt in range(max_retries + 1); the loop falls through, and the
\* function returns None, when the range is empty.
pub_publish_begin ==
    /\ p_pc = "publish"
    /\ IF SNS_TOPIC_ARN = ""
       THEN /\ p_exc' = Raise("SNSPublishError", "SNS_TOPIC_ARN environment variable not set")
            /\ p_pc' = "except"
            /\ UNCHANGED <<attempt, response>>
       ELSE IF MAX_RETRIES + 1 <= 0
       THEN /\ response' = NoResponse
            /\ p_pc' = "success"
            /\ UNCHANGED <<attempt, p_exc>>
       ELSE /\ attempt' = 0
            /\ p_pc' = "attempt"
            /\ UNCHANGED <<response, p_exc>>
    /\ UNCHANGED <<env_vars, sub_vars, p_event, correlation_id, message, sns_calls, p_metrics,
                   p_return>>

\* A loop that goes on after a call that succeeded.
pub_attempt_republishing(outcome, mid) ==
    /\ p_pc = "attempt"
    /\ sns_calls' = Append(sns_calls, SnsCall(outcome, mid))
    /\ IF outcome = "ok" /\ attempt = MAX_RETRIES
       THEN /\ response' = [none |-> FALSE, MessageId |-> mid]
            /\ p_pc' = "success"
            /\ UNCHANGED <<attempt, p_exc>>
       ELSE IF outcome = "ok"
       THEN /\ attempt' = attempt + 1
            /\ UNCHANGED <<p_pc, response, p_exc>>
       ELSE IF ~CaughtByRetry(outcome)
       THEN /\ p_exc' = Raise(outcome, "transport")
            /\ p_pc' = "except"
            /\ UNCHANGED <<attempt, response>>
       ELSE IF attempt = MAX_RETRIES
       THEN /\ p_exc' = Raise("SNSPublishError", "Failed to publish message after attempts")
            /\ p_pc' = "except"
            /\ UNCHANGED <<attempt, response>>
       ELSE /\ attempt' = attempt + 1
            /\ UNCHANGED <<p_pc, response, p_exc>>
    /\ UNCHANGED <<env_vars, sub_vars, p_event, correlation_id, message, p_metrics, p_return>>

\* publish_message, lines 225-247: one pass of the loop, one sns_client.publish.
pub_attempt(outcome, mid) ==
    /\ p_pc = "attempt"
    /\ sns_calls' = Append(sns_calls, SnsCall(outcome, mid))
    /\ IF outcome = "ok"
       THEN /\ response' = [none |-> FALSE, MessageId |-> mid]
            /\ p_pc' = "success"
            /\ UNCHANGED <<attempt, p_exc>>
       ELSE IF ~CaughtByRetry(outcome)
       THEN /\ p_exc' = Raise(outcome, "transport")
            /\ p_pc' = "except"
            /\ UNCHANGED <<attempt, response>>
       ELSE IF attempt = MAX_RETRIES
       THEN /\ p_exc' = Raise("SNSPublishError", "Failed to publish message after attempts")
            /\ p_pc' = "except"
            /\ UNCHANGED <<attempt, response>>
       ELSE /\ attempt' = attempt + 1
            /\ UNCHANGED <<p_pc, response, p_exc>>
    /\ UNCHANGED <<env_vars, sub_vars, p_event, correlation_id, message, p_metrics, p_return>>

\* Lines 46-63: record_metrics('Success'), then the 200 response; building it
\* reads response['MessageId'], a TypeError when publish_message returned None.
pub_success(sink_ok) ==
    /\ p_pc = "success"
    /\ p_metrics' = Append(p_metrics, Emission("Success", sink_ok))
    /\ IF pub_record_metrics_raises(sink_ok)
       THEN /\ p_exc' = Raise("Exception", "metrics")
            /\ p_pc' = "except"
            /\ p_return' = p_return
       ELSE IF response.none
       THEN /\ p_exc' = Raise("TypeError", "'NoneType' object is not subscriptable")
            /\ p_pc' = "except"
            /\ p_return' = p_return
       ELSE /\ p_return' = Return(200, "", response.MessageId, correlation_id)
            /\ p_pc' = "done"
            /\ p_exc' = p_exc
    /\ UNCHANGED <<env_vars, sub_vars, p_event, correlation_id, message, attempt, sns_calls,
                   response>>

\* A handler whose SNSPublishError clause answers like the last one.
ErrorReturn_generic(kind, cid) ==
    CASE kind = "ValidationError" -> Return(400, "Invalid input", "", cid)
      [] OTHER                    -> Return(500, "Internal server error", "", cid)

\* The metric type and the response of each except clause, lines 65-113.
MetricTypeOf(kind) ==
    CASE kind = "ValidationError" -> "ValidationError"
      [] kind = "SNSPublishError" -> "SNSError"
      [] OTHER                    -> "UnexpectedError"

ErrorReturn(kind, cid) ==
    CASE kind = "ValidationError" -> Return(400, "Invalid input", "", cid)
      [] kind = "SNSPublishError" -> Return(500, "Failed to publish message", "", cid)
      [] OTHER                    -> Return(500, "Internal server error", "", cid)

\* Lines 65-113: the except clause of the exception in flight.
pub_except(sink_ok) ==
    /\ p_pc = "except"
    /\ p_metrics' = Append(p_metrics, Emission(MetricTypeOf(p_exc.kind), sink_ok))
    /\ IF pub_record_metrics_raises(sink_ok)
       THEN /\ p_pc' = "raised"
            /\ p_return' = p_return
       ELSE /\ p_return' = ErrorReturn(p_exc.kind, correlation_id)
            /\ p_pc' = "done"
    /\ UNCHANGED <<env_vars, sub_vars, p_event, correlation_id, p_exc, message, attempt,
                   sns_calls, response>>

----------------------------------------------------------------------------
(* Subscriber: the records *)

\* Python's None, where the model needs it as an id.
None == "None"

\* The 'data' member of an envelope: its type and, when it is an object, its
\* 'message', 'order' and 'event' members (order and event by their type).
Data(t, hasMessage, msg, hasOrder, order, hasEvent, event) ==
    [t |-> t, hasMessage |-> hasMessage, message |-> msg, hasOrder |-> hasOrder,
     order |-> order, hasEvent |-> hasEvent, event |-> event]

NoData == Data("null", FALSE, NoMessage, FALSE, "null", FALSE, "null")
TextData(msg) == Data("dict", TRUE, msg, FALSE, "null", FALSE, "null")
OrderData(t)  == Data("dict", FALSE, NoMessage, TRUE, t, FALSE, "null")

\* The value json.loads(Message) gives: its type and, when it is an object, its
\* 'data', 'correlationId' and 'source' members ("" when absent) and its
\* serialized size.
Parsed(t, hasData, data, size, cid, source) ==
    [t |-> t, hasData |-> hasData, data |-> data, size |-> size,
     correlationId |-> cid, source |-> source]

NotAnEnvelope(t) == Parsed(t, FALSE, NoData, 4, "", "")
\* json.loads('{}'), the default of sns_data.get('Message', '{}')
EmptyObject == Parsed("dict", FALSE, NoData, 2, "", "")

\* One entry of MessageAttributes: absent, an object with a 'Value', an object
\* without one, or not an object.
Attribute(form, value) == [form |-> form, value |-> value]
NoAttribute == Attribute("absent", "")

\* One entry of event['Records'].
\*   rt:   the type of the entry itself
\*   sns:  record['Sns']: "absent", or its type
\*   MessageId: "" when absent
\*   msg:  Sns['Message']: "absent", "notstr", "badjson" or "json"
\*   parsed: json.loads of it, when msg = "json"
\*   attrs: Sns['MessageAttributes']: "absent", or its type
Record(rt, sns, mid, msg, parsed, attrs, attrCid, attrSource) ==
    [rt |-> rt, sns |-> sns, MessageId |-> mid, msg |-> msg, parsed |-> parsed,
     attrs |-> attrs, CorrelationId |-> attrCid, Source |-> attrSource]

Envelope(data, size) == Parsed("dict", TRUE, data, size, "cid-body", "publisher-lambda")

\* A record as SNS delivers what the publisher sent.
Delivered(mid, parsed) ==
    Record("dict", "dict", mid, "json", parsed, "dict",
           Attribute("value", "cid-attr"), Attribute("value", "publisher-lambda"))

\* The same with its attributes dropped.
Bare(mid, msg, parsed) ==
    Record("dict", "dict", mid, msg, parsed, "absent", NoAttribute, NoAttribute)

\* Records whose 'data' has several of the keys the classifier looks for, or
\* none of them.
MixedRecords ==
    { Delivered("m20", Envelope(Data("dict", TRUE, Str(<<"a">>), TRUE, "dict", TRUE, "dict"), 40)),
      Delivered("m21", Envelope(Data("dict", TRUE, Str(<<"a">>), TRUE, "dict", FALSE, "null"), 40)),
      Delivered("m22", Envelope(Data("dict", FALSE, NoMessage, TRUE, "dict", TRUE, "dict"), 40)),
      Delivered("m23", Envelope(Data("dict", FALSE, NoMessage, FALSE, "null", TRUE, "dict"), 40)),
      Delivered("m24", Envelope(Data("dict", FALSE, NoMessage, FALSE, "null", FALSE, "null"), 40)),
      Delivered("m25", Envelope(Data("list", FALSE, NoMessage, FALSE, "null", FALSE, "null"), 40)) }

GoodRecords ==
    { Delivered("m1", Envelope(TextData(Str(<<"a", " ", "b">>)), 40)),
      Delivered("m2", Envelope(OrderData("dict"), MAX_MESSAGE_SIZE)),
      Bare("m3", "json", Envelope(Data("str", FALSE, NoMessage, FALSE, "null", FALSE, "null"), 40)),
      Bare("", "json", Parsed("dict", TRUE, TextData(Str(<<"a">>)), 40, "", "")) }
    \cup MixedRecords

\* Records the claims call invalid: not JSON, not an object, without 'data', too big.
InvalidRecords ==
    { Bare("m4", "badjson", EmptyObject),
      Bare("", "badjson", EmptyObject),
      Delivered("m5", NotAnEnvelope("list")),
      Delivered("m6", Parsed("dict", FALSE, NoData, 40, "cid-body", "")),
      Bare("m7", "absent", EmptyObject),
      Delivered("m8", Envelope(TextData(Str(<<"a">>)), MAX_MESSAGE_SIZE + 1)) }

\* Records with a member of the wrong type.
MistypedRecords ==
    { Record("str", "absent", "", "absent", EmptyObject, "absent", NoAttribute, NoAttribute),
      Record("dict", "null", "", "absent", EmptyObject, "absent", NoAttribute, NoAttribute),
      Record("dict", "absent", "", "absent", EmptyObject, "absent", NoAttribute, NoAttribute),
      Bare("m9", "notstr", EmptyObject),
      Record("dict", "dict", "m10", "json", Envelope(TextData(Str(<<"a">>)), 40),
             "null", NoAttribute, NoAttribute),
      Record("dict", "dict", "m11", "json", Envelope(TextData(Str(<<"a">>)), 40),
             "dict", Attribute("notdict", ""), NoAttribute),
      Record("dict", "dict", "m12", "json", Envelope(TextData(Str(<<"a">>)), 40),
             "dict", Attribute("novalue", ""), Attribute("novalue", "")),
      Delivered("m13", Envelope(TextData(Num(5)), 40)),
      Delivered("m14", Envelope(OrderData("str"), 40)),
      Delivered("m15", Envelope(Data("dict", TRUE, Num(5), TRUE, "dict", FALSE, "null"), 40)),
      Record("dict", "dict", "m16", "json", Envelope(TextData(Str(<<"a">>)), 40),
             "dict", Attribute("value", ""), Attribute("value", "")),
      Record("dict", "dict", "m17", "json", Parsed("dict", TRUE, TextData(Str(<<"a">>)), 40, "", ""),
             "dict", Attribute("novalue", ""), Attribute("novalue", "")) }

Records == GoodRecords \cup InvalidRecords \cup MistypedRecords

\* The record a character of a str 'Records' is.
CharRecord == Record("str", "absent", "", "absent", EmptyObject, "absent", NoAttribute, NoAttribute)

RECURSIVE SeqsUpTo(_, _)
\* The sequences over S of length at most n.
SeqsUpTo(S, n) ==
    IF n = 0 THEN { <<>> }
    ELSE LET shorter == SeqsUpTo(S, n - 1) IN
         shorter \cup { Append(q, x) : q \in shorter, x \in S }

\* The event of the subscriber: the type of event['Records'] ("absent" when the
\* key is missing) and what iterating it yields.
SubEvent(t, records) == [Records_t |-> t, Records |-> records]

\* The records the longer batches are made of: two that succeed, one that is not
\* JSON, one without 'data', one whose handler fails, one that is not an object.
CoreRecords ==
    { Delivered("m1", Envelope(TextData(Str(<<"a", " ", "b">>)), 40)),
      Delivered("m2", Envelope(OrderData("dict"), MAX_MESSAGE_SIZE)),
      Bare("m4", "badjson", EmptyObject),
      Delivered("m6", Parsed("dict", FALSE, NoData, 40, "cid-body", "")),
      Delivered("m13", Envelope(TextData(Num(5)), 40)),
      CharRecord }

\* Every record alone, and every batch of core records.
Batches == { <<r>> : r \in Records } \cup SeqsUpTo(CoreRecords, MaxRecords)

SubscriberEvents ==
    { SubEvent("list", q) : q \in Batches }
    \cup { SubEvent("str", q) : q \in SeqsUpTo({CharRecord}, MaxRecords) \ {<<>>} }
    \cup { SubEvent(t, <<>>) : t \in {"absent", "null", "num"} }

----------------------------------------------------------------------------
(* Subscriber: the functions *)

\* x.get(...) raises AttributeError unless x is a dict.
\* record.get('Sns', {}).get('MessageId', 'unknown'), lines 53 and 62: whether it
\* raises, and its value.
record_id_raises(record) == record.rt # "dict" \/ record.sns \notin {"absent", "dict"}

record_id(record) ==
    IF record.sns = "absent" \/ record.MessageId = "" THEN "unknown" ELSE record.MessageId

\* sns_data.get('MessageId'), line 110
message_id_of(record) ==
    IF record.sns = "absent" \/ record.MessageId = "" THEN None ELSE record.MessageId

\* sns_data.get('Message', '{}'), line 113: the form of the message body.
message_body_of(record) ==
    IF record.sns = "absent" THEN "absent" ELSE record.msg

parsed_message_of(record) ==
    IF message_body_of(record) = "absent" THEN EmptyObject ELSE record.parsed

\* sns_data.get('MessageAttributes', {}), line 114
message_attributes_of(record) ==
    IF record.sns = "absent" THEN "absent" ELSE record.attrs

Value(v) == [kind |-> "ok", value |-> v]
Raises(kind) == [kind |-> kind, value |-> ""]

\* extract_correlation_id(message_attributes, parsed_message); uuid is what
\* uuid.uuid4() gives this call.
extract_correlation_id(attrs, attribute, parsed_message, uuid) ==
    IF attrs \notin {"absent", "dict"} THEN Raises("TypeError")
    ELSE IF attrs = "dict" /\ attribute.form # "absent"
    THEN CASE attribute.form = "value"   -> Value(attribute.value)
           [] attribute.form = "novalue" -> Value(uuid)
           [] OTHER                      -> Raises("AttributeError")
    ELSE IF parsed_message.t = "dict" /\ parsed_message.correlationId # ""
    THEN Value(parsed_message.correlationId)
    ELSE Value(uuid)

\* extract_source(message_attributes, parsed_message)
extract_source(attrs, attribute, parsed_message) ==
    IF attrs \notin {"absent", "dict"} THEN Raises("TypeError")
    ELSE IF attrs = "dict" /\ attribute.form # "absent"
    THEN CASE attribute.form = "value"   -> Value(attribute.value)
           [] attribute.form = "novalue" -> Value("unknown")
           [] OTHER                      -> Raises("AttributeError")
    ELSE IF parsed_message.t = "dict" /\ parsed_message.source # ""
    THEN Value(parsed_message.source)
    ELSE Value("unknown")

\* A validator that does not ask for 'data'.
validate_message_structure_without_data(msg) ==
    IF msg.t # "dict" THEN "must be a JSON object"
    ELSE IF msg.size > MAX_MESSAGE_SIZE THEN "size exceeds limit"
    ELSE ""

\* A validator that does not measure the envelope.
validate_message_structure_without_size(msg) ==
    IF msg.t # "dict" THEN "must be a JSON object"
    ELSE IF ~msg.hasData THEN "missing required field: data"
    ELSE ""

\* validate_message_structure(message, message_id): the text of the
\* MessageProcessingError it raises, "" when it returns.
validate_message_structure(msg) ==
    IF msg.t # "dict" THEN "must be a JSON object"
    ELSE IF ~msg.hasData THEN "missing required field: data"
    ELSE IF msg.size > MAX_MESSAGE_SIZE THEN "size exceeds limit"
    ELSE ""

RECURSIVE WordCount(_, _)
\* len(text.split()): the words of s, inWord telling whether the last character
\* seen was part of one.
WordCount(s, inWord) ==
    IF s = <<>> THEN 0
    ELSE IF Head(s) = " " THEN WordCount(Tail(s), FALSE)
    ELSE (IF inWord THEN 0 ELSE 1) + WordCount(Tail(s), TRUE)

Details(type, wordCount, charCount, dataType) ==
    [type |-> type, wordCount |-> wordCount, charCount |-> charCount,
     dataType |-> dataType]

NoDetails == Details("", 0, 0, "")

\* process_text_message(text_content, correlation_id): text_content[:100] and
\* text_content.split() need a str.
process_text_message(text_content) ==
    IF text_content.t # "str" THEN Raises("TypeError")
    ELSE [kind |-> "ok",
          value |-> Details("text", WordCount(text_content.s, FALSE), Len(text_content.s), "")]

\* process_order_message(order_data, correlation_id): order_data.get needs a dict.
process_order_message(order_t) ==
    IF order_t # "dict" THEN Raises("AttributeError")
    ELSE [kind |-> "ok", value |-> Details("order", 0, 0, "")]

\* process_event_message(event_data, correlation_id)
process_event_message(event_t) ==
    IF event_t # "dict" THEN Raises("AttributeError")
    ELSE [kind |-> "ok", value |-> Details("event", 0, 0, "")]

\* process_generic_message(data, correlation_id)
process_generic_message(data) ==
    [kind |-> "ok", value |-> Details("generic", 0, 0, data.t)]

\* A classifier that looks for 'order' first.
process_message_content_order_first(msg) ==
    LET data == msg.data
        result ==
            IF data.t = "dict" /\ data.hasOrder THEN process_order_message(data.order)
            ELSE IF data.t = "dict" /\ data.hasMessage THEN process_text_message(data.message)
            ELSE IF data.t = "dict" /\ data.hasEvent THEN process_event_message(data.event)
            ELSE process_generic_message(data)
    IN IF result.kind = "ok" THEN result
       ELSE [kind |-> "MessageProcessingError", value |-> NoDetails]

\* process_message_content(message, ...): the handler's result under key
\* 'details' and its type under 'type'; any exception of a handler becomes a
\* MessageProcessingError.
process_message_content(msg) ==
    LET data == msg.data
        result ==
            IF data.t = "dict" /\ data.hasMessage THEN process_text_message(data.message)
            ELSE IF data.t = "dict" /\ data.hasOrder THEN process_order_message(data.order)
            ELSE IF data.t = "dict" /\ data.hasEvent THEN process_event_message(data.event)
            ELSE process_generic_message(data)
    IN IF result.kind = "ok" THEN result
       ELSE [kind |-> "MessageProcessingError", value |-> NoDetails]

\* A store that writes whether or not a table is configured.
store_calls_put_item_always(table_name) == TRUE

\* store_processing_result: whether it calls table.put_item, and whether it
\* raises when that call fails (audit_ok = FALSE): its try/except swallows it.
store_calls_put_item(table_name) == table_name # ""

\* The same without its try/except.
store_processing_result_unguarded(table_name, audit_ok) == ~audit_ok

store_processing_result_raises(table_name, audit_ok) == FALSE

Result(status, id, cid, source, processingResult, error) ==
    [status |-> status, id |-> id, correlationId |-> cid, source |-> source,
     processingResult |-> processingResult, error |-> error]

Failure(text) ==
    [kind |-> "MessageProcessingError", result |-> Result("", "", "", "", NoDetails, text),
     stored |-> FALSE]

UnexpectedError ==
    [kind |-> "Exception", result |-> Result("", "", "", "", NoDetails, "unexpected"),
     stored |-> FALSE]

\* A processor without the except Exception of line 148: what is not a
\* MessageProcessingError leaves it as it is.
process_sns_record_unconverted(record, table_name, uuid, audit_ok) ==
    IF record.rt # "dict" \/ record.sns \notin {"absent", "dict"}
    THEN UnexpectedError
    ELSE
    LET message_id == message_id_of(record)
        body == message_body_of(record)
        attrs == message_attributes_of(record)
        parsed_message == parsed_message_of(record)
        cid == extract_correlation_id(attrs, record.CorrelationId, parsed_message, uuid)
        source == extract_source(attrs, record.Source, parsed_message)
        invalid == validate_message_structure(parsed_message)
        content == process_message_content(parsed_message)
    IN
    IF body = "notstr" THEN UnexpectedError
    ELSE IF body = "badjson" THEN Failure("Invalid JSON in SNS message")
    ELSE IF cid.kind # "ok" \/ source.kind # "ok" THEN UnexpectedError
    ELSE IF invalid # "" THEN Failure(invalid)
    ELSE IF content.kind # "ok" THEN Failure("Failed to process message content")
    ELSE [kind |-> "ok",
          result |-> Result("success", message_id, cid.value, source.value, content.value, ""),
          stored |-> store_calls_put_item(table_name)]

\* process_sns_record(record, context): the result it returns, or the
\* MessageProcessingError it raises; stored tells whether put_item was called.
process_sns_record(record, table_name, uuid, audit_ok) ==
    IF record.rt # "dict" \/ record.sns \notin {"absent", "dict"}
    THEN Failure("Unexpected error processing SNS record")
    ELSE
    LET message_id == message_id_of(record)
        body == message_body_of(record)
        attrs == message_attributes_of(record)
        parsed_message == parsed_message_of(record)
        cid == extract_correlation_id(attrs, record.CorrelationId, parsed_message, uuid)
        source == extract_source(attrs, record.Source, parsed_message)
        invalid == validate_message_structure(parsed_message)
        content == process_message_content(parsed_message)
    IN
    IF body = "notstr" THEN Failure("Unexpected error processing SNS record")
    ELSE IF body = "badjson" THEN Failure("Invalid JSON in SNS message")
    ELSE IF cid.kind # "ok" \/ source.kind # "ok"
    THEN Failure("Unexpected error processing SNS record")
    ELSE IF invalid # "" THEN Failure(invalid)
    ELSE IF content.kind # "ok" THEN Failure("Failed to process message content")
    ELSE IF store_calls_put_item(table_name)
            /\ store_processing_result_raises(table_name, audit_ok)
    THEN [kind |-> "MessageProcessingError",
          result |-> Result("", "", "", "", NoDetails, "Unexpected error processing SNS record"),
          stored |-> TRUE]
    ELSE [kind |-> "ok",
          result |-> Result("success", message_id, cid.value, source.value, content.value, ""),
          stored |-> store_calls_put_item(table_name)]

\* record_metrics of the subscriber: whether it raises when put_metric_data does.
sub_record_metrics_raises(sink_ok) == FALSE

SubEmission(successful, failed, error, sink_ok) ==
    [successful |-> successful, failed |-> failed, CriticalErrors |-> error,
     sink_ok |-> sink_ok]

NoSubReturn ==
    [statusCode |-> 0, processedRecords |-> 0, successfulRecords |-> 0,
     failedRecords |-> 0, results |-> <<>>, hasResults |-> FALSE, error |-> ""]

\* A handler that reports partial success only when nothing succeeded.
StatusCode_ignoring_failures(failed) == IF failed > 1 THEN 207 ELSE 200

\* status code of the return of line 72
StatusCode(failed) == IF failed = 0 THEN 200 ELSE 207

\* A handler that puts the newest result first.
AppendResult_prepending(results, result) == <<result>> \o results

\* processing_results.append(result)
AppendResult(results, result) == Append(results, result)

----------------------------------------------------------------------------
(* Subscriber: lambda_handler, step by step *)

\* Lines 30-37.  len(event.get('Records', [])) of line 33 is outside the try:
\* a 'Records' without a length raises to the caller.
sub_invoke(ev, table_name, proc) ==
    /\ s_pc = "idle"
    /\ p_pc = "idle"
    /\ s_event' = ev
    /\ PROCESSING_RESULTS_TABLE' = table_name
    /\ processor' = proc
    /\ s_pc' = IF ev.Records_t \in {"null", "num"} THEN "raised" ELSE "loop"
    /\ s_i' = 1
    /\ UNCHANGED <<MAX_RETRIES, SNS_TOPIC_ARN, pub_vars, successful_records, failed_records,
                   processing_results, s_outcomes, s_audit, s_metrics, s_return>>

\* Lines 41-63: one pass of the loop.  inject is what a patched processor does
\* with this record: it raises, or ("none") the real process_sns_record runs.
sub_record(inject, uuid, audit_ok) ==
    /\ s_pc = "loop"
    /\ s_i <= Len(s_event.Records)
    /\ inject # "none" => processor = "stub"
    /\ LET record == s_event.Records[s_i]
           r == IF inject = "none"
                THEN process_sns_record(record, PROCESSING_RESULTS_TABLE, uuid, audit_ok)
                ELSE [kind |-> inject, result |-> Result("", "", "", "", NoDetails, "stub"),
                      stored |-> FALSE]
       IN /\ s_outcomes' = Append(s_outcomes, r.kind)
          /\ s_audit' = IF r.stored
                        THEN Append(s_audit, [index |-> s_i, messageId |-> message_id_of(record),
                                              ok |-> audit_ok])
                        ELSE s_audit
          /\ IF r.kind = "ok"
             THEN /\ processing_results' = AppendResult(processing_results, r.result)
                  /\ successful_records' = successful_records + 1
                  /\ s_i' = s_i + 1
                  /\ UNCHANGED <<s_pc, failed_records>>
             ELSE /\ failed_records' = failed_records + 1
                  /\ successful_records' = successful_records
                  /\ IF record_id_raises(record)
                     THEN /\ s_pc' = "critical"
                          /\ UNCHANGED <<processing_results, s_i>>
                     ELSE /\ processing_results' =
                                AppendResult(processing_results,
                                    Result(IF r.kind = "MessageProcessingError" THEN "failed" ELSE "error",
                                           record_id(record), "", "", NoDetails, r.result.error))
                          /\ s_i' = s_i + 1
                          /\ s_pc' = s_pc
    /\ UNCHANGED <<env_vars, pub_vars, s_event, processor, s_metrics, s_return>>

\* Lines 65-79: after the loop, record_metrics and the return.
sub_finish(sink_ok) ==
    /\ s_pc = "loop"
    /\ s_i > Len(s_event.Records)
    /\ s_metrics' = Append(s_metrics,
                           SubEmission(successful_records, failed_records, FALSE, sink_ok))
    /\ IF sub_record_metrics_raises(sink_ok)
       THEN /\ s_pc' = "critical"
            /\ s_return' = s_return
       ELSE /\ s_pc' = "done"
            /\ s_return' = [statusCode |-> StatusCode(failed_records),
                            processedRecords |-> Len(processing_results),
                            successfulRecords |-> successful_records,
                            failedRecords |-> failed_records,
                            results |-> processing_results,
                            hasResults |-> TRUE, error |-> ""]
    /\ UNCHANGED <<env_vars, pub_vars, s_event, processor, s_i, successful_records,
                   failed_records, processing_results, s_outcomes, s_audit>>

\* An except clause that adds the failures already counted to the records that
\* did not succeed.
sub_critical_double_counting(sink_ok) ==
    /\ s_pc = "critical"
    /\ s_metrics' = Append(s_metrics,
                           SubEmission(successful_records,
                                       failed_records + Len(s_event.Records) - successful_records,
                                       TRUE, sink_ok))
    /\ s_pc' = "done"
    /\ s_return' = [statusCode |-> 500, processedRecords |-> 0,
                    successfulRecords |-> 0, failedRecords |-> 0,
                    results |-> <<>>, hasResults |-> FALSE,
                    error |-> "Critical processing error"]
    /\ UNCHANGED <<env_vars, pub_vars, s_event, processor, s_i, successful_records,
                   failed_records, processing_results, s_outcomes, s_audit>>

\* Lines 81-91: the except clause around the loop.
sub_critical(sink_ok) ==
    /\ s_pc = "critical"
    /\ s_metrics' = Append(s_metrics,
                           SubEmission(successful_records,
                                       Len(s_event.Records) - successful_records,
                                       TRUE, sink_ok))
    /\ IF sub_record_metrics_raises(sink_ok)
       THEN /\ s_pc' = "raised"
            /\ s_return' = s_return
       ELSE /\ s_pc' = "done"
            /\ s_return' = [statusCode |-> 500, processedRecords |-> 0,
                            successfulRecords |-> 0, failedRecords |-> 0,
                            results |-> <<>>, hasResults |-> FALSE,
                            error |-> "Critical processing error"]
    /\ UNCHANGED <<env_vars, pub_vars, s_event, processor, s_i, successful_records,
                   failed_records, processing_results, s_outcomes, s_audit>>

----------------------------------------------------------------------------
(* From the publisher to the subscriber *)

\* The MessageAttributes of the sns_client.publish call, lines 208-221.
message_attributes(cid) ==
    [CorrelationId |-> Attribute("value", cid),
     Source |-> Attribute("value", "publisher-lambda")]

\* json.loads of the Message the publisher handed to the transport (line 207:
\* json.dumps(message)), as process_sns_record parses it (line 118).
Received(envelope) ==
    Parsed("dict", TRUE,
           Data(envelope.data.t, envelope.data.hasMessage, envelope.data.message,
                FALSE, "null", FALSE, "null"),
           envelope.size, envelope.correlationId, envelope.source)

\* The record SNS makes of a message it accepted: its MessageId, the Message as
\* sent, and the attributes of the publish call, or none when they are dropped
\* on the way.
Notification(mid, envelope, cid, keep_attributes) ==
    Record("dict", "dict", mid, "json", Received(envelope),
           IF keep_attributes THEN "dict" ELSE "absent",
           IF keep_attributes THEN message_attributes(cid).CorrelationId ELSE NoAttribute,
           IF keep_attributes THEN message_attributes(cid).Source ELSE NoAttribute)

\* SNS delivers the message of a publisher invocation that ended 200: the
\* subscriber is invoked with that one record (lines 30-37 of its handler).
sns_deliver(keep_attributes) ==
    /\ p_pc = "done"
    /\ p_return.statusCode = 200
    /\ s_pc = "idle"
    /\ s_event' = SubEvent("list", <<Notification(p_return.messageId, message,
                                                  correlation_id, keep_attributes)>>)
    /\ processor' = "real"
    /\ s_pc' = "loop"
    /\ s_i' = 1
    /\ UNCHANGED <<env_vars, pub_vars, successful_records, failed_records,
                   processing_results, s_outcomes, s_audit, s_metrics, s_return>>

----------------------------------------------------------------------------
\* The values the environment may hold.
RetrySettings == -1 .. MaxRetriesBound
TopicSettings == {"", "arn:aws:sns:topic"}
TableSettings == {"", "results-table"}

\* Nothing is running; the environment of a function is read when it is invoked.
Init ==
    /\ MAX_RETRIES = 3
    /\ SNS_TOPIC_ARN = ""
    /\ PROCESSING_RESULTS_TABLE = ""
    /\ p_pc = "idle"
    /\ p_event = Event(NotAnObject("null"), FALSE, FALSE, FALSE, NoBody)
    /\ correlation_id = ""
    /\ p_exc = NoException
    /\ message = NoEnvelope
    /\ attempt = 0
    /\ sns_calls = <<>>
    /\ response = NoResponse
    /\ p_metrics = <<>>
    /\ p_return = NoReturn
    /\ s_pc = "idle"
    /\ s_event = SubEvent("absent", <<>>)
    /\ processor = "real"
    /\ s_i = 1
    /\ successful_records = 0
    /\ failed_records = 0
    /\ processing_results = <<>>
    /\ s_outcomes = <<>>
    /\ s_audit = <<>>
    /\ s_metrics = <<>>
    /\ s_return = NoSubReturn

Next ==
    \/ /\ p_pc = "idle" /\ s_pc = "idle"
       /\ \E ev \in PublisherEvents, uuid \in UUIDs, retries \in RetrySettings,
             topic_arn \in TopicSettings : pub_invoke(ev, uuid, retries, topic_arn)
    \/ pub_validate
    \/ pub_publish_begin
    \/ \E outcome \in SnsOutcomes, mid \in SnsMessageIds : pub_attempt(outcome, mid)
    \/ \E sink_ok \in BOOLEAN : pub_success(sink_ok)
    \/ \E sink_ok \in BOOLEAN : pub_except(sink_ok)
    \/ /\ p_pc = "idle" /\ s_pc = "idle"
       /\ \E ev \in SubscriberEvents, table_name \in TableSettings, proc \in {"real", "stub"} :
             sub_invoke(ev, table_name, proc)
    \/ /\ s_pc = "loop"
       /\ \E inject \in {"none", "MessageProcessingError", "Exception"}, uuid \in UUIDs,
             audit_ok \in BOOLEAN : sub_record(inject, uuid, audit_ok)
    \/ \E sink_ok \in BOOLEAN : sub_finish(sink_ok)
    \/ \E sink_ok \in BOOLEAN : sub_critical(sink_ok)
    \/ \E keep_attributes \in BOOLEAN : sns_deliver(keep_attributes)

Spec == Init /\ [][Next]_vars

----------------------------------------------------------------------------
(* Properties: the publisher's retry loop *)

Last(q) == q[Len(q)]

\* publish_message has made its calls and has ended, by a return or a raise.
PublishEnded == sns_calls # <<>> /\ p_pc # "attempt"

\* The sns_client.publish calls of this invocation that failed.
AllFailed(calls) == \A i \in 1 .. Len(calls) : calls[i].outcome # "ok"

\* publish_message returned the response of its last call.
ReturnedLastResponse ==
    /\ p_pc \in {"success", "done"}
    /\ p_exc.kind = "none"
    /\ ~response.none
    /\ response.MessageId = Last(sns_calls).MessageId

\* C1: with the topic configured, a transport that fails MAX_RETRIES times and
\* then succeeds makes publish_message return that response, and one that fails
\* MAX_RETRIES + 1 times in a row makes it raise SNSPublishError: publish_message
\* ends on a success, with that response, or after MAX_RETRIES + 1 failures, with
\* SNSPublishError, whatever the failures are.
C1_RetryOutcome ==
    (PublishEnded /\ SNS_TOPIC_ARN # "" /\ MAX_RETRIES >= 0) =>
        /\ Last(sns_calls).outcome = "ok" => ReturnedLastResponse
        /\ Last(sns_calls).outcome # "ok" =>
              /\ Len(sns_calls) = MAX_RETRIES + 1
              /\ AllFailed(sns_calls)
              /\ p_exc.kind = "SNSPublishError"

----------------------------------------------------------------------------
(* Properties: the subscriber's batch *)

\* The handler returned (it did not raise).
SubReturned == s_pc = "done"

\* C2: every record of event['Records'] is attempted exactly once whatever the
\* earlier records did, so that on return processedRecords = len(results) = the
\* number of records = successfulRecords + failedRecords.
C2_EveryRecordAttempted ==
    (SubReturned /\ s_event.Records_t = "list" /\ processor = "real") =>
        /\ Len(s_outcomes) = Len(s_event.Records)
        /\ s_return.hasResults
        /\ s_return.processedRecords = Len(s_return.results)
        /\ s_return.processedRecords = Len(s_event.Records)
        /\ s_return.processedRecords = s_return.successfulRecords + s_return.failedRecords

\* The handler completed its record loop and returned its summary (line 72).
LoopCompleted == SubReturned /\ s_return.hasResults

Failed(results) ==
    { i \in 1 .. Len(results) : results[i].status \in {"failed", "error"} }

\* C3: when the handler completes its record loop, statusCode is 200 exactly
\* when failedRecords = 0 (the empty batch and the missing 'Records' included)
\* and 207 exactly when a record ended as failed or error.
C3_StatusCode ==
    LoopCompleted =>
        /\ s_return.statusCode \in {200, 207}
        /\ s_return.statusCode = 200 <=> s_return.failedRecords = 0
        /\ s_return.statusCode = 207 <=> Failed(s_return.results) # {}
        /\ s_return.failedRecords = Cardinality(Failed(s_return.results))
        /\ Len(s_event.Records) = 0 => s_return.statusCode = 200

\* A batch of a record that succeeded and one the patched processor failed
\* returned 207.
C3_Witness ==
    /\ LoopCompleted
    /\ s_return.statusCode = 207
    /\ Len(s_return.results) = 2
    /\ s_return.results[1].status = "success"
    /\ s_return.results[2].status = "error"

\* The status the handler gives a record the processor ended in this way with.
StatusOf(outcome) ==
    CASE outcome = "ok"                     -> "success"
      [] outcome = "MessageProcessingError" -> "failed"
      [] OTHER                              -> "error"

\* The id a result carries for this record: 'messageId' of a success, 'record_id'
\* of a failure.
IdOf(record, status) ==
    IF record.sns = "absent" \/ record.MessageId = ""
    THEN IF status = "success" THEN None ELSE "unknown"
    ELSE record.MessageId

\* C4: the records are processed one after another in arrival order, and the
\* i-th entry of 'results' is the outcome of the i-th record: nothing reordered,
\* left out or repeated, whatever the outcomes are.
C4_ResultsInArrivalOrder ==
    /\ s_pc = "loop" => /\ Len(processing_results) = s_i - 1
                        /\ Len(s_outcomes) = s_i - 1
    /\ \A i \in 1 .. Len(processing_results) :
          /\ i <= Len(s_event.Records)
          /\ processing_results[i].status = StatusOf(s_outcomes[i])
          /\ processing_results[i].id =
                IdOf(s_event.Records[i], processing_results[i].status)
    /\ LoopCompleted => /\ s_return.results = processing_results
                        /\ Len(s_return.results) = Len(s_event.Records)

\* A batch whose first record failed and whose second succeeded was returned.
C4_Witness ==
    /\ LoopCompleted
    /\ Len(s_return.results) = 2
    /\ s_return.results[1].status = "failed"
    /\ s_return.results[1].id = "m6"
    /\ s_return.results[2].status = "success"
    /\ s_return.results[2].id = "m1"

\* The record has an SNS message, and that message is not valid JSON, or is not
\* an object, or has no 'data', or serializes to more than MAX_MESSAGE_SIZE bytes.
HasSnsMessage(record) == record.rt = "dict" /\ record.sns = "dict"

LacksData(record) ==
    /\ HasSnsMessage(record)
    /\ record.msg \in {"json", "absent"}
    /\ parsed_message_of(record).t = "dict"
    /\ ~parsed_message_of(record).hasData

InvalidMessage(record) ==
    /\ HasSnsMessage(record)
    /\ \/ record.msg = "badjson"
       \/ /\ record.msg \in {"json", "absent"}
          /\ \/ parsed_message_of(record).t # "dict"
             \/ ~parsed_message_of(record).hasData
             \/ parsed_message_of(record).size > MAX_MESSAGE_SIZE

\* C5: a record whose SNS message is not valid JSON, not an object, without
\* 'data' or larger than MAX_MESSAGE_SIZE is reported 'failed', never 'error' or
\* 'success', with record_id its MessageId ('unknown' when it has none); a batch
\* of two, one without 'data' and one good, returns successfulRecords = 1,
\* failedRecords = 1 and statusCode 207.
C5_InvalidRecordsFail ==
    processor = "real" =>
        /\ \A i \in 1 .. Len(s_outcomes) :
              InvalidMessage(s_event.Records[i]) =>
                  /\ s_outcomes[i] = "MessageProcessingError"
                  /\ Len(processing_results) >= i
                  /\ processing_results[i].status = "failed"
                  /\ processing_results[i].id =
                        (IF s_event.Records[i].MessageId = "" THEN "unknown"
                         ELSE s_event.Records[i].MessageId)
        /\ (/\ SubReturned
            /\ s_event.Records_t = "list"
            /\ Len(s_event.Records) = 2
            /\ \E i, j \in 1 .. 2 : /\ LacksData(s_event.Records[i])
                                    /\ s_event.Records[j] \in GoodRecords)
           => /\ s_return.hasResults
              /\ s_return.successfulRecords = 1
              /\ s_return.failedRecords = 1
              /\ s_return.statusCode = 207

\* The batch of a good record and one without 'data' was returned.
C5_Witness ==
    /\ SubReturned
    /\ processor = "real"
    /\ Len(s_event.Records) = 2
    /\ s_event.Records[1] \in GoodRecords
    /\ LacksData(s_event.Records[2])
    /\ s_return.statusCode = 207
    /\ s_return.results[2].status = "failed"
    /\ s_return.results[2].id = "m6"

\* C6: when the processor raises an exception that is not a
\* MessageProcessingError, that record's result has status 'error',
\* failedRecords is incremented, the statusCode is 207 and the remaining records
\* are still processed.
C6_UnexpectedErrorIsolated ==
    \A i \in 1 .. Len(s_outcomes) :
        s_outcomes[i] = "Exception" =>
            /\ failed_records >= 1
            /\ Len(processing_results) >= i
            /\ processing_results[i].status = "error"
            /\ SubReturned => /\ s_return.hasResults
                              /\ s_return.statusCode = 207
                              /\ s_return.failedRecords >= 1
                              /\ Len(s_return.results) = Len(s_event.Records)

\* C7: no exception escapes the handler: for every event ('Records' null, not a
\* list, entries that are not objects) it returns statusCode 200, 207 or 500,
\* and a failure of the iteration itself returns 500, without 'results', with a
\* CriticalErrors metric.
C7_NeverRaises ==
    processor = "real" =>
    /\ s_pc # "raised"
    /\ SubReturned =>
          /\ s_return.statusCode \in {200, 207, 500}
          /\ s_return.statusCode = 500 =>
                /\ ~s_return.hasResults
                /\ s_metrics # <<>>
                /\ Last(s_metrics).CriticalErrors

----------------------------------------------------------------------------
(* Properties: the publisher's outcomes *)

\* How the invocation ended before any metric was sent, read from what
\* validate_input does with the event and from the transport's calls: "none"
\* (validated and published) or the exception raised.
PrimaryOutcome ==
    LET v == validate_input(p_event) IN
    IF v.kind # "ok" THEN v.kind
    ELSE IF SNS_TOPIC_ARN = "" THEN "SNSPublishError"
    ELSE IF sns_calls = <<>> THEN "TypeError"
    ELSE IF Last(sns_calls).outcome = "ok" THEN "none"
    ELSE IF Last(sns_calls).outcome \in {"ClientError", "BotoCoreError"}
    THEN "SNSPublishError"
    ELSE Last(sns_calls).outcome

ExpectedStatusCode(outcome) ==
    CASE outcome = "none"            -> 200
      [] outcome = "ValidationError" -> 400
      [] OTHER                       -> 500

ExpectedError(outcome) ==
    CASE outcome = "none"            -> ""
      [] outcome = "ValidationError" -> "Invalid input"
      [] outcome = "SNSPublishError" -> "Failed to publish message"
      [] OTHER                       -> "Internal server error"

ExpectedMetricType(outcome) ==
    CASE outcome = "none"            -> "Success"
      [] outcome = "ValidationError" -> "ValidationError"
      [] outcome = "SNSPublishError" -> "SNSError"
      [] OTHER                       -> "UnexpectedError"

PubReturned == p_pc = "done"

\* C8: the publisher handler never raises and gives every invocation one
\* outcome: 200 when validation and publish succeed, 400 'Invalid input' on a
\* ValidationError of validate_input, 500 'Failed to publish message' on a
\* SNSPublishError of publish_message, 500 'Internal server error' on any other
\* exception; every response carries the invocation's correlationId in its body
\* and in X-Correlation-ID.
C8_OutcomeMapping ==
    /\ p_pc # "raised"
    /\ PubReturned =>
          /\ p_return.statusCode = ExpectedStatusCode(PrimaryOutcome)
          /\ p_return.error = ExpectedError(PrimaryOutcome)
          /\ p_return.correlationId = correlation_id
          /\ p_return.header = correlation_id
          /\ correlation_id \in UUIDs
          /\ p_return.statusCode = 200 =>
                /\ validate_input(p_event).kind = "ok"
                /\ Last(sns_calls).outcome = "ok"

\* The transport failed MAX_RETRIES + 1 times and the handler answered 500
\* 'Failed to publish message'.
C8_Witness ==
    /\ PubReturned
    /\ MAX_RETRIES >= 1
    /\ Len(sns_calls) = MAX_RETRIES + 1
    /\ p_return.statusCode = 500
    /\ p_return.error = "Failed to publish message"
    /\ p_return.header = correlation_id

----------------------------------------------------------------------------
(* Properties: metrics and the audit store *)

\* C9: every handler invocation that returns has emitted metrics exactly once,
\* after its outcome was known: the publisher with the type of its outcome
\* (Success, ValidationError, SNSError, UnexpectedError), the subscriber with the
\* final success and failure counts of the batch; never per record, never zero
\* times, never twice.
C9_OneEmission ==
    /\ p_pc \in {"idle", "validate", "publish", "attempt"} => p_metrics = <<>>
    /\ PubReturned => /\ Len(p_metrics) = 1
                      /\ p_metrics[1].type = ExpectedMetricType(PrimaryOutcome)
    /\ s_pc \in {"idle", "loop"} => s_metrics = <<>>
    /\ SubReturned =>
          /\ Len(s_metrics) = 1
          /\ s_return.hasResults =>
                /\ s_metrics[1].successful = s_return.successfulRecords
                /\ s_metrics[1].failed = s_return.failedRecords

SinkFailed(metrics) == \E k \in 1 .. Len(metrics) : ~metrics[k].sink_ok

Succeeded(outcomes) == { i \in 1 .. Len(outcomes) : outcomes[i] = "ok" }

\* A record's failure result could not be built: the loop was left.
Aborted ==
    \E i \in 1 .. Len(s_outcomes) :
        s_outcomes[i] # "ok" /\ record_id_raises(s_event.Records[i])

\* C10: a failure of the metrics sink leaves the response of either handler as
\* it would have been, and a failure of the audit write leaves the record's
\* result 'success' with the same processingResult and the counts unchanged.
C10_AncillaryFailures ==
    /\ p_pc # "raised"
    /\ s_pc = "raised" => s_metrics = <<>>
    /\ (PubReturned /\ SinkFailed(p_metrics)) =>
          /\ p_return.statusCode = ExpectedStatusCode(PrimaryOutcome)
          /\ p_return.error = ExpectedError(PrimaryOutcome)
          /\ PrimaryOutcome = "none" => p_return.messageId = Last(sns_calls).MessageId
    /\ (SubReturned /\ SinkFailed(s_metrics)) =>
          /\ s_return.hasResults <=> ~Aborted
          /\ s_return.hasResults =>
                /\ s_return.results = processing_results
                /\ Len(s_return.results) = Len(s_event.Records)
                /\ s_return.successfulRecords = Cardinality(Succeeded(s_outcomes))
                /\ s_return.failedRecords =
                      Len(s_event.Records) - Cardinality(Succeeded(s_outcomes))
                /\ s_return.statusCode =
                      (IF Succeeded(s_outcomes) = 1 .. Len(s_event.Records) THEN 200 ELSE 207)
    /\ \A k \in 1 .. Len(s_audit) :
          ~s_audit[k].ok =>
              LET i == s_audit[k].index IN
              /\ s_outcomes[i] = "ok"
              /\ processing_results[i].status = "success"
              /\ processing_results[i].processingResult =
                    process_message_content(parsed_message_of(s_event.Records[i])).value
    /\ successful_records = Cardinality(Succeeded(s_outcomes))

\* A batch was answered 200 although the audit write and the metrics sink failed.
C10_Witness ==
    /\ SubReturned
    /\ s_return.statusCode = 200
    /\ Len(s_return.results) >= 1
    /\ SinkFailed(s_metrics)
    /\ \E k \in 1 .. Len(s_audit) : ~s_audit[k].ok

----------------------------------------------------------------------------
(* Properties: the publisher's validation *)

\* C11: validation precedes transport: an invocation whose event validate_input
\* rejects makes no sns_client.publish call, and a call is only ever made after
\* validate_input returned for this invocation's event, with the object it
\* returned as the envelope's 'data'.
C11_ValidationPrecedesTransport ==
    /\ p_pc \in {"idle", "validate"} => sns_calls = <<>>
    /\ validate_input(p_event).kind # "ok" => sns_calls = <<>>
    /\ sns_calls # <<>> =>
          /\ validate_input(p_event).kind = "ok"
          /\ message.data = validate_input(p_event).body
          /\ p_exc.kind # "ValidationError"

\* An invocation with the topic configured ended 400 without a transport call.
C11_Witness ==
    /\ PubReturned
    /\ SNS_TOPIC_ARN # ""
    /\ MAX_RETRIES >= 0
    /\ validate_input(p_event).kind = "ValidationError"
    /\ p_return.statusCode = 400
    /\ sns_calls = <<>>

\* validate_input has run for this invocation's event.
Validated == p_pc \notin {"idle", "validate"}

\* It returned: the handler went on to prepare_message.
Accepted == Validated /\ message.correlationId # ""

\* The event is wrapped: an object with a 'body'.
Wrapped(event) == event.self.t = "dict" /\ event.hasBody

\* The wrapped event's 'body' is a str that is not JSON.
NotJson(event) == Wrapped(event) /\ event.bodyIsStr /\ ~event.bodyJsonOk

\* The payload of an event: the content of its 'body' (decoded when a str), or
\* the event itself when it has none.
Payload(event) == IF Wrapped(event) THEN event.body ELSE event.self

\* A 'message' that is null, false, 0, an empty str, list or object, or a str of
\* whitespace only.
MessageIsEmpty(m) ==
    \/ m.t = "null"
    \/ m.t \in {"bool", "num", "list", "dict"} /\ m.n = 0
    \/ m.t = "str" /\ \A k \in 1 .. Len(m.s) : m.s[k] = " "

\* The payload is an object with a 'message' and of at most MAX_MESSAGE_SIZE bytes.
HasMessageAndFits(event) ==
    /\ ~NotJson(event)
    /\ Payload(event).t = "dict"
    /\ Payload(event).hasMessage
    /\ Payload(event).size <= MAX_MESSAGE_SIZE

\* validate_input returned the payload, its 'message' the one supplied.
ReturnedPayload ==
    /\ Accepted
    /\ p_exc.kind # "ValidationError"
    /\ message.data = Payload(p_event)
    /\ message.data.message = Payload(p_event).message

\* C12 as stated: every object payload with a 'message' field and of at most
\* MAX_MESSAGE_SIZE bytes is accepted by validate_input and returned with the
\* same 'message', in the wrapped and in the direct shape.
C12_PayloadsWithMessageAccepted ==
    (Validated /\ HasMessageAndFits(p_event)) => ReturnedPayload

\* C12, amended: every object payload with a 'message' that is not empty (not
\* null, false, 0, an empty str, list or object, nor whitespace only) and of at
\* most MAX_MESSAGE_SIZE bytes is accepted by validate_input and returned with
\* the same 'message', in the wrapped and in the direct shape.
C12_NonEmptyMessagesAccepted ==
    (Validated /\ HasMessageAndFits(p_event) /\ ~MessageIsEmpty(Payload(p_event).message))
        => ReturnedPayload

\* A wrapped payload of exactly MAX_MESSAGE_SIZE bytes was accepted and published.
C12_Witness ==
    /\ PubReturned
    /\ Wrapped(p_event)
    /\ p_event.bodyIsStr
    /\ Payload(p_event).size = MAX_MESSAGE_SIZE
    /\ ReturnedPayload
    /\ message.data.message = Str(<<"a", " ", "b">>)
    /\ p_return.statusCode = 200

\* The payload lacks 'message', or its 'message' is empty or whitespace only, or
\* the body is not JSON, or what it decodes to is not an object.
Rejectable(event) ==
    \/ NotJson(event)
    \/ Payload(event).t # "dict"
    \/ ~Payload(event).hasMessage
    \/ MessageIsEmpty(Payload(event).message)

\* C13: for every payload without 'message', with an empty or whitespace-only
\* 'message', with a body that is not JSON or that decodes to something that is
\* not an object, validate_input raises ValidationError and nothing else: the
\* handler answers 400.
C13_InvalidPayloadsRejected ==
    (Validated /\ Rejectable(p_event)) =>
        /\ ~Accepted
        /\ p_exc.kind = "ValidationError"
        /\ PubReturned => p_return.statusCode = 400

\* The payload serializes to more than MAX_MESSAGE_SIZE bytes.
Oversize(event) == ~NotJson(event) /\ Payload(event).size > MAX_MESSAGE_SIZE

\* The payload is an object with a 'message' that is not empty.
WellFormed(event) ==
    /\ ~NotJson(event)
    /\ Payload(event).t = "dict"
    /\ Payload(event).hasMessage
    /\ ~MessageIsEmpty(Payload(event).message)

\* validate_input raised the ValidationError that names the payload's byte
\* count and the limit.
RejectedForSize ==
    /\ ~Accepted
    /\ p_exc.kind = "ValidationError"
    /\ p_exc.text = "Message size exceeds limit"
    /\ p_exc.actual = Payload(p_event).size
    /\ p_exc.limit = MAX_MESSAGE_SIZE

\* C14 as stated: every payload that serializes to more than MAX_MESSAGE_SIZE
\* bytes is rejected with a ValidationError that names its byte count and the
\* limit, and a payload of exactly MAX_MESSAGE_SIZE bytes is accepted.
C14_OversizeNamesBothCounts ==
    Validated =>
        /\ Oversize(p_event) => RejectedForSize
        /\ (WellFormed(p_event) /\ Payload(p_event).size = MAX_MESSAGE_SIZE) => Accepted

\* C14, amended: every object payload with a non-empty 'message' that serializes
\* to more than MAX_MESSAGE_SIZE bytes is rejected with a ValidationError that
\* names its byte count and the limit; an oversize object payload without a
\* 'message' is rejected with the ValidationError of the missing field, which
\* names no byte count; a payload of exactly MAX_MESSAGE_SIZE bytes is accepted.
C14_SizeCeiling ==
    Validated =>
        /\ (Oversize(p_event) /\ WellFormed(p_event)) => RejectedForSize
        /\ (Oversize(p_event) /\ Payload(p_event).t = "dict" /\ ~Payload(p_event).hasMessage) =>
              /\ ~Accepted
              /\ p_exc.kind = "ValidationError"
              /\ p_exc.text = "Message field is required"
              /\ p_exc.actual = 0
        /\ (WellFormed(p_event) /\ Payload(p_event).size = MAX_MESSAGE_SIZE) =>
              /\ Accepted
              /\ message.data = Payload(p_event)
        /\ p_exc.text = "Message size exceeds limit" => Oversize(p_event)

\* A payload one byte over the ceiling was answered 400.
C14_Witness ==
    /\ PubReturned
    /\ WellFormed(p_event)
    /\ Payload(p_event).size = MAX_MESSAGE_SIZE + 1
    /\ RejectedForSize
    /\ p_return.statusCode = 400

\* The wrapped event has a 'message' next to a 'body' that is an object
\* without one.
OuterMessageOnly(event) ==
    /\ Wrapped(event)
    /\ event.self.hasMessage
    /\ ~NotJson(event)
    /\ event.body.t = "dict"
    /\ ~event.body.hasMessage

\* C15: validate_input takes one reading of the event: when the event has a
\* 'body', the object it validates and returns comes from the 'body' alone and
\* the event's other members change nothing (a 'message' next to a 'body'
\* without one is rejected); only an event without 'body' is validated itself.
C15_BodyIsAuthoritative ==
    Validated =>
        /\ (Wrapped(p_event) /\ Accepted) => message.data = p_event.body
        /\ (~Wrapped(p_event) /\ Accepted) => message.data = p_event.self
        /\ OuterMessageOnly(p_event) =>
              /\ ~Accepted
              /\ p_exc.kind = "ValidationError"
              /\ p_exc.text = "Message field is required"
        /\ Wrapped(p_event) =>
              \A o \in OuterObjects :
                  LET other == validate_input([p_event EXCEPT !.self = o]) IN
                  /\ (other.kind = "ok") = Accepted
                  /\ ~Accepted => other = p_exc

\* An event with a 'message' of its own and a 'body' without one was answered 400.
C15_Witness ==
    /\ PubReturned
    /\ OuterMessageOnly(p_event)
    /\ p_event.bodyIsStr
    /\ p_return.statusCode = 400
    /\ p_exc.text = "Message field is required"

----------------------------------------------------------------------------
(* Properties: what the publisher sends and the subscriber receives *)

\* C16: a payload validate_input accepted is deliverable: the Message handed to
\* the transport, the serialized envelope of prepare_message, is of at most
\* MAX_MESSAGE_SIZE bytes, and so passes validate_message_structure on receipt.
C16_AcceptedIsDeliverable ==
    sns_calls # <<>> =>
        /\ message.size <= MAX_MESSAGE_SIZE
        /\ validate_message_structure(Received(message)) = ""

----------------------------------------------------------------------------
(* Properties: correlation id and source of a record *)

\* The attribute bag supplies a value under this name.
Supplies(record, attribute) ==
    message_attributes_of(record) = "dict" /\ attribute.form = "value"

\* The records processed so far that process_sns_record returned a result for.
Processed == { i \in 1 .. Len(s_outcomes) : s_outcomes[i] = "ok" }

\* C17: the three tiers of extract_correlation_id and extract_source: the
\* attribute's value when the attribute bag supplies one; otherwise the body's
\* 'correlationId' / 'source' when it has one; only otherwise the default, a
\* fresh uuid for the correlation id and 'unknown' for the source.
C17_ThreeTierFallback ==
    processor = "real" =>
    \A i \in Processed :
        LET record == s_event.Records[i]
            body == parsed_message_of(record)
            result == processing_results[i]
        IN /\ Supplies(record, record.CorrelationId) =>
                 result.correlationId = record.CorrelationId.value
           /\ (~Supplies(record, record.CorrelationId) /\ body.correlationId # "") =>
                 result.correlationId = body.correlationId
           /\ (~Supplies(record, record.CorrelationId) /\ body.correlationId = "") =>
                 result.correlationId \in UUIDs
           /\ Supplies(record, record.Source) => result.source = record.Source.value
           /\ (~Supplies(record, record.Source) /\ body.source # "") =>
                 result.source = body.source
           /\ (~Supplies(record, record.Source) /\ body.source = "") =>
                 result.source = "unknown"

\* A correlation id is present in one of the two sources of the record.
Present(record) ==
    \/ Supplies(record, record.CorrelationId)
    \/ parsed_message_of(record).correlationId # ""

\* C18: extract_correlation_id gives the same id on every call with the same
\* attributes and body when one of them holds an id, generates a fresh one only
\* when neither does, and never returns the empty string.
C18_IdempotentCorrelationId ==
    processor = "real" =>
    \A i \in Processed :
        LET record == s_event.Records[i]
            id(uuid) == extract_correlation_id(message_attributes_of(record),
                                               record.CorrelationId,
                                               parsed_message_of(record), uuid)
        IN /\ Present(record) =>
                 \A u1, u2 \in UUIDs :
                     /\ id(u1) = id(u2)
                     /\ processing_results[i].correlationId = id(u1).value
           /\ processing_results[i].correlationId \in UUIDs => ~Present(record)
           /\ processing_results[i].correlationId # ""

----------------------------------------------------------------------------
(* Properties: the classifier and what runs before it *)

\* The handler the precedence message, order, event, generic names for this data.
FirstMatch(data) ==
    CASE data.t # "dict"  -> "generic"
      [] data.hasMessage  -> "text"
      [] data.hasOrder    -> "order"
      [] data.hasEvent    -> "event"
      [] OTHER            -> "generic"

\* C19: process_message_content takes the first match in the order message,
\* order, event, generic: the text handler when data is an object with
\* 'message', whatever else it has; order before event; the generic handler
\* exactly when data is no object or has none of the three keys.
C19_FirstMatchWins ==
    processor = "real" =>
        /\ \A i \in Processed :
              LET data == parsed_message_of(s_event.Records[i]).data
                  details == processing_results[i].processingResult
              IN /\ details.type = FirstMatch(data)
                 /\ details.type = "generic" <=>
                       (data.t # "dict" \/ ~(data.hasMessage \/ data.hasOrder \/ data.hasEvent))
                 /\ details.type = "generic" => details.dataType = data.t
                 /\ details.type = "text" => details.charCount = Len(data.message.s)
        /\ \A i \in 1 .. Len(s_outcomes) :
              LET data == parsed_message_of(s_event.Records[i]).data
              IN (data.t = "dict" /\ data.hasMessage /\ data.message.t # "str") =>
                     s_outcomes[i] = "MessageProcessingError"

\* A record whose data has 'message', 'order' and 'event' was processed as text.
C19_Witness ==
    /\ SubReturned
    /\ processor = "real"
    /\ Len(s_return.results) = 1
    /\ s_return.results[1].id = "m20"
    /\ s_return.results[1].status = "success"
    /\ s_return.results[1].processingResult.type = "text"

\* The record's Message decodes to an object that has no 'data' or that
\* serializes to more than MAX_MESSAGE_SIZE bytes.
BadEnvelope(record) ==
    /\ record.rt = "dict"
    /\ record.sns \in {"absent", "dict"}
    /\ message_body_of(record) \in {"json", "absent"}
    /\ parsed_message_of(record).t = "dict"
    /\ \/ ~parsed_message_of(record).hasData
       \/ parsed_message_of(record).size > MAX_MESSAGE_SIZE

\* C20: process_sns_record never reaches process_message_content for an
\* envelope without 'data' or of more than MAX_MESSAGE_SIZE bytes:
\* validate_message_structure runs before it and ends the record with
\* MessageProcessingError, before any handler and any audit write.
C20_ValidationBeforeDispatch ==
    processor = "real" =>
    \A i \in 1 .. Len(s_outcomes) :
        BadEnvelope(s_event.Records[i]) =>
            /\ s_outcomes[i] = "MessageProcessingError"
            /\ Len(processing_results) >= i
            /\ processing_results[i].status = "failed"
            /\ processing_results[i].processingResult = NoDetails
            /\ processing_results[i].error # "Failed to process message content"
            /\ message_attributes_of(s_event.Records[i]) \in {"absent", "dict"} =>
                  processing_results[i].error \in
                      {"missing required field: data", "size exceeds limit"}
            /\ \A k \in 1 .. Len(s_audit) : s_audit[k].index # i

\* An envelope one byte over the ceiling was failed by the validator, with the
\* audit table configured and no write made.
C20_Witness ==
    /\ SubReturned
    /\ processor = "real"
    /\ PROCESSING_RESULTS_TABLE # ""
    /\ Len(s_return.results) = 1
    /\ s_return.results[1].id = "m8"
    /\ s_return.results[1].status = "failed"
    /\ s_return.results[1].error = "size exceeds limit"
    /\ s_audit = <<>>

----------------------------------------------------------------------------
(* Properties: the publisher's transport calls *)

\* publish_message has been entered and has left its topic check.
PublishEntered == Accepted /\ p_pc # "publish"

\* C21: with SNS_TOPIC_ARN unset or empty publish_message raises
\* SNSPublishError without a transport call, and the handler answers 500
\* 'Failed to publish message'.
C21_TopicUnset ==
    (PublishEntered /\ SNS_TOPIC_ARN = "") =>
        /\ sns_calls = <<>>
        /\ p_exc.kind = "SNSPublishError"
        /\ p_exc.text = "SNS_TOPIC_ARN environment variable not set"
        /\ response = NoResponse
        /\ PubReturned =>
              /\ p_return.statusCode = 500
              /\ p_return.error = "Failed to publish message"
              /\ p_metrics[1].type = "SNSError"

\* A valid event was answered 500 'Failed to publish message' with the topic unset.
C21_Witness ==
    /\ PubReturned
    /\ Accepted
    /\ SNS_TOPIC_ARN = ""
    /\ MAX_RETRIES >= 0
    /\ sns_calls = <<>>
    /\ p_return.statusCode = 500
    /\ p_return.error = "Failed to publish message"

\* C22: every exception of sns_client.publish, whatever its type, falls under
\* the retry policy: after a failure on an attempt that is not the last another
\* attempt follows, and when every attempt has failed publish_message raises
\* SNSPublishError; the transport's own exception never leaves publish_message.
C22_AnyExceptionRetried ==
    (SNS_TOPIC_ARN # "" /\ MAX_RETRIES >= 0 /\ sns_calls # <<>>) =>
        /\ \A k \in 1 .. Len(sns_calls) :
              (sns_calls[k].outcome # "ok" /\ k <= MAX_RETRIES) =>
                  (k < Len(sns_calls) \/ p_pc = "attempt")
        /\ (AllFailed(sns_calls) /\ p_pc # "attempt") =>
              /\ Len(sns_calls) = MAX_RETRIES + 1
              /\ p_exc.kind = "SNSPublishError"
        /\ p_exc.kind \notin {"ClientError", "BotoCoreError", "Exception"}

\* publish_message has ended, by a return or by a raise.
PublishLeft == PublishEntered /\ p_pc # "attempt"

\* C26: for every integer MAX_RETRIES, with the topic set, publish_message
\* makes at least one and at most MAX_RETRIES + 1 transport calls, none after
\* the first that succeeds, and ends only by returning a transport response or
\* by raising SNSPublishError, never by returning without a response.
C26_RetryBounds ==
    /\ SNS_TOPIC_ARN # "" => Len(sns_calls) <= MAX_RETRIES + 1 \/ sns_calls = <<>>
    /\ \A k \in 1 .. Len(sns_calls) - 1 : sns_calls[k].outcome # "ok"
    /\ (PublishLeft /\ SNS_TOPIC_ARN # "") =>
          /\ Len(sns_calls) >= 1
          /\ Len(sns_calls) <= MAX_RETRIES + 1
          /\ \/ ~response.none /\ response.MessageId = Last(sns_calls).MessageId
             \/ response.none /\ p_exc.kind = "SNSPublishError"

----------------------------------------------------------------------------
(* Properties: the correlation id from request to result *)

\* C23: the correlation id is generated only when the request carries none:
\* when the payload has a 'correlationId', the envelope, the CorrelationId
\* attribute of the publish call and the response carry that id, not a new one.
C23_CorrelationIdPropagated ==
    (Accepted /\ Payload(p_event).correlationId # "") =>
        /\ message.correlationId = Payload(p_event).correlationId
        /\ message_attributes(correlation_id).CorrelationId.value =
              Payload(p_event).correlationId
        /\ PubReturned => /\ p_return.correlationId = Payload(p_event).correlationId
                          /\ p_return.header = Payload(p_event).correlationId

\* The publisher answered 200.
Published == PubReturned /\ p_return.statusCode = 200

\* SNS delivered the published message and the subscriber has processed it.
DeliveredAndProcessed == Published /\ s_pc # "idle" /\ s_outcomes # <<>>

\* C24: for every successful publish the correlation id of the response body,
\* of the X-Correlation-ID header, of the envelope and of the CorrelationId
\* attribute are one value, and when the message is delivered, with its
\* attributes or without them, the subscriber's result for the record carries
\* that id and the source 'publisher-lambda'.
C24_EndToEndCorrelation ==
    /\ Published =>
          /\ p_return.correlationId = correlation_id
          /\ p_return.header = correlation_id
          /\ message.correlationId = correlation_id
          /\ message_attributes(correlation_id).CorrelationId.value = correlation_id
          /\ correlation_id \in UUIDs
    /\ DeliveredAndProcessed =>
          /\ s_outcomes[1] = "ok"
          /\ processing_results[1].status = "success"
          /\ processing_results[1].correlationId = correlation_id
          /\ processing_results[1].source = "publisher-lambda"

----------------------------------------------------------------------------
(* Properties: the subscriber's critical path and audit writes *)

\* The metrics call of the except clause around the loop has been made.
CriticalReported == s_metrics # <<>> /\ Last(s_metrics).CriticalErrors

\* C27: when an exception leaves the record loop after k records succeeded and
\* f failed out of n, the failure count given to the metrics sink is n - k:
\* successes and failures reported add up to n, and the f failures already
\* counted are in it once, with the records never attempted.
C27_CriticalFailureCount ==
    CriticalReported =>
        LET n == Len(s_event.Records)
            k == Cardinality(Succeeded(s_outcomes))
            f == Len(s_outcomes) - k
            reported == Last(s_metrics)
        IN /\ Len(s_metrics) = 1
           /\ reported.successful = k
           /\ reported.failed = n - k
           /\ reported.successful + reported.failed = n
           /\ f = failed_records
           /\ reported.failed = f + (n - Len(s_outcomes))

\* The loop was left at the second record after the first had failed: two
\* failures of two records were reported.
C27_Witness ==
    /\ SubReturned
    /\ CriticalReported
    /\ Len(s_event.Records) = 2
    /\ s_outcomes = <<"MessageProcessingError", "MessageProcessingError">>
    /\ failed_records = 2
    /\ Len(processing_results) = 1
    /\ Last(s_metrics).failed = 2
    /\ Last(s_metrics).successful = 0

\* The audit writes made for record i.
AuditWrites(i) == { k \in 1 .. Len(s_audit) : s_audit[k].index = i }

\* C25: audit writes are optional and for successes only: no put_item call when
\* PROCESSING_RESULTS_TABLE is unset; when it is set, at most one write per
\* record, keyed by the record's MessageId, and only for a record that passed
\* validation and classification: a failed or error record has none.
C25_AuditSuccessOnly ==
    /\ PROCESSING_RESULTS_TABLE = "" => s_audit = <<>>
    /\ \A k \in 1 .. Len(s_audit) :
          LET i == s_audit[k].index IN
          /\ i \in Processed
          /\ processing_results[i].status = "success"
          /\ s_audit[k].messageId = message_id_of(s_event.Records[i])
          /\ validate_message_structure(parsed_message_of(s_event.Records[i])) = ""
    /\ \A i \in 1 .. Len(s_outcomes) :
          /\ Cardinality(AuditWrites(i)) <= 1
          /\ s_outcomes[i] # "ok" => AuditWrites(i) = {}
          /\ (s_outcomes[i] = "ok" /\ PROCESSING_RESULTS_TABLE # "") =>
                Cardinality(AuditWrites(i)) = 1

\* With the table configured, a batch of a failed and a successful record made
\* one write, for the successful one.
C25_Witness ==
    /\ SubReturned
    /\ PROCESSING_RESULTS_TABLE # ""
    /\ s_outcomes = <<"MessageProcessingError", "ok">>
    /\ Len(s_audit) = 1
    /\ s_audit[1].index = 2
    /\ s_audit[1].messageId = "m1"

\* C28: process_sns_record raises nothing but MessageProcessingError, whatever
\* the record: what parsing, id extraction, validation or a handler raises is
\* converted.  With the real processor every result is 'success' or 'failed',
\* never 'error'.
C28_OnlyMessageProcessingError ==
    processor = "real" =>
        /\ \A i \in 1 .. Len(s_outcomes) :
              s_outcomes[i] \in {"ok", "MessageProcessingError"}
        /\ \A i \in 1 .. Len(processing_results) :
              processing_results[i].status \in {"success", "failed"}
        /\ SubReturned => \A i \in 1 .. Len(s_return.results) :
                              s_return.results[i].status # "error"

\* A record whose MessageAttributes is null was reported failed.
C28_Witness ==
    /\ SubReturned
    /\ processor = "real"
    /\ Len(s_return.results) = 1
    /\ s_return.results[1].id = "m10"
    /\ s_return.results[1].status = "failed"
    /\ s_return.results[1].error = "Unexpected error processing SNS record"

----------------------------------------------------------------------------
(* Properties: the publisher against the subscriber and the transport *)

\* C29: every message the publisher accepts and publishes, whatever the JSON
\* type of its non-empty 'message', is processed by the subscriber, when
\* delivered unchanged, with status 'success' and type 'text': nothing the
\* publish side accepts ends 'failed' on the receive side.
C29_PublishReceiveCompatible ==
    DeliveredAndProcessed =>
        /\ s_event.Records[1].parsed = Received(message)
        /\ s_outcomes = <<"ok">>
        /\ failed_records = 0
        /\ processing_results[1].status = "success"
        /\ processing_results[1].processingResult.type = "text"
        /\ SubReturned => s_return.statusCode = 200

\* The transport calls of this invocation that succeeded.
SucceededCalls == { k \in 1 .. Len(sns_calls) : sns_calls[k].outcome = "ok" }

\* C30: the status the publisher reports agrees with what reached the
\* transport: it returns 200 exactly when one publish call of the invocation
\* succeeded, with that call's id as messageId, and whenever it returns 400 or
\* 500 no call succeeded.
C30_StatusAgreesWithTransport ==
    /\ Cardinality(SucceededCalls) <= 1
    /\ PubReturned =>
          /\ p_return.statusCode \in {200, 400, 500}
          /\ p_return.statusCode = 200 <=> Cardinality(SucceededCalls) = 1
          /\ p_return.statusCode = 200 =>
                /\ SucceededCalls = {Len(sns_calls)}
                /\ p_return.messageId = Last(sns_calls).MessageId
                /\ p_return.messageId \in SnsMessageIds
          /\ p_return.statusCode \in {400, 500} =>
                /\ SucceededCalls = {}
                /\ p_return.messageId = ""

\* The third call succeeded after two failures and the handler answered 200
\* with its id.
C30_Witness ==
    /\ PubReturned
    /\ Len(sns_calls) = 3
    /\ sns_calls[1].outcome = "ClientError"
    /\ sns_calls[2].outcome = "BotoCoreError"
    /\ p_return.statusCode = 200
    /\ p_return.messageId = "sns-2"
    /\ sns_calls[3].MessageId = "sns-2"

=============================================================================
